---- MODULE Spec2Model ----
(***************************************************************************)
(* Model of backward_fetching (src/main.py): the backward walk over the    *)
(* (day, hour) index of the hyperliquid archive, with an hourly and a      *)
(* daily retry budget.  Days are day ordinals (datetime values that differ *)
(* by timedelta(days=1) differ by 1); the store, the lz4 decompressor and  *)
(* the local file are the environment and answer nondeterministically.     *)
(***************************************************************************)
EXTENDS Integers, Sequences, FiniteSets, TLC

\* ---- bounds of the model ----
\* the wider specification draws start_date and end_date from 0..MaxWideDay
MaxWideDay == 2
\* start_date and end_date are drawn from 0..MaxDay
MaxDay == 1
\* a streamed body has at most MaxChunks chunks
MaxChunks == 1

\* ---- program constants ----
\* the bug of a budget of one miss less
max_hourly_retries_Low == 3 - 1
\* line 43
max_hourly_retries == 3
\* line 44
max_daily_retries == 3
\* the hour every day is entered at by the outer loop (line 51, line 119)
LastHour == 23
\* the bug of entering the day after an abandoned one at its last hour
AbandonHour_LastHour == 24 - 1
\* the hour an abandoned day's predecessor is entered at (lines 91, 102)
AbandonHour == 0
\* the bug of skipping back one hour only after a miss
MissSkip_One == 2 - 1
\* the backward skip after a miss with budget left (line 99)
MissSkip == 2

WideDays == 0..MaxWideDay
Days == 0..MaxDay

\* Error codes a ClientError of get_object may carry (e.response["Error"]["Code"]);
\* "None" stands for a response without a code.
ErrorCodes == {"NoSuchKey", "AccessDenied", "SlowDown", "None"}

VARIABLES
    start_date_dt,      \* line 40
    end_date_dt,        \* the parsed end_date (line 39), the walk's first day
    current_date,       \* line 39, lines 90, 101, 118
    current_hour,       \* lines 51, 78, 91, 99, 102, 119
    hourly_retry_count, \* lines 50, 77, 84, 92
    daily_retry_count,  \* lines 45, 93, 103
    pc,                 \* position of the walker in backward_fetching
    s3_key,             \* the (day, hour) of the last request, with the counters at that time,
                        \* the message printed last before it and the key requested before it
    io,                 \* calls made on local_f for the fetch in progress, in order
    printed,            \* the last message printed
    outcome,            \* how the call ended: "running", "completed", "exhausted", "raised"
    nreq,               \* number of get_object calls issued
    nfiles,             \* number of files written through fsync (lines 66-73 done)
    hit_days,           \* days for which some request returned data
    miss_days,          \* days for which some request returned NoSuchKey
    crossed,            \* the cursor was before start_date while daily budget remained
    last_result,        \* how the last try block ended so far: "none", "data", an error code, "Exception"
    misses              \* the keys of the current run of consecutive NoSuchKey answers on one day

vars == <<start_date_dt, end_date_dt, current_date, current_hour,
          hourly_retry_count, daily_retry_count, pc, s3_key, io, printed,
          outcome, nreq, nfiles, hit_days, miss_days, crossed, last_result, misses>>

inputs == <<start_date_dt, end_date_dt>>
cursor == <<current_date, current_hour, hourly_retry_count, daily_retry_count>>
history == <<nreq, nfiles, hit_days, miss_days>>
answers == <<last_result, misses>>

\* No request has been built yet (date_str, hour_str, s3_key unbound).
NoKey == [date |-> -1000, hour |-> -1, hourly |-> -1, daily |-> -1,
          after |-> "none", prev_date |-> -1000, prev_hour |-> -1]

\* ---- conditions of the code ----

\* the bug of testing the hour with > instead of >=: hour 0 is never fetched
InnerCond_SkipsHourZero == current_hour > 0 /\ daily_retry_count < max_daily_retries

\* the bug of leaving the daily budget out of the inner loop's test
InnerCond_NoDailyTest == current_hour >= 0

\* the bug of treating every ClientError as a missing key
IsNoSuchKey_AnyCode(error_code) == error_code \in ErrorCodes

\* the bug of testing the hourly budget with > instead of >=
HourlyExhausted_OffByOne(count) == count > max_hourly_retries

\* the bug of testing the underflow with < -1 instead of < 0
HourUnderflow_OffByOne(hour) == hour < -1

\* the bug of testing the daily budget with > instead of >=
DailyExhausted_Strict == daily_retry_count > max_daily_retries

\* the bug of comparing the error code with another name
IsNoSuchKey_WrongCode(error_code) == error_code = "NotFound"

\* the bug of testing the hourly counter for # 0 instead of = 0 after the inner loop
FellOffDay_WrongCount == current_hour < 0 /\ hourly_retry_count # 0

\* line 49
OuterCond == current_date >= start_date_dt /\ daily_retry_count < max_daily_retries

\* line 53
InnerCond == current_hour >= 0 /\ daily_retry_count < max_daily_retries

\* line 82
IsNoSuchKey(error_code) == error_code = "NoSuchKey"

\* line 86, on the incremented counter
HourlyExhausted(count) == count >= max_hourly_retries

\* line 100
HourUnderflow(hour) == hour < 0

\* line 117
FellOffDay == current_hour < 0 /\ hourly_retry_count = 0

\* line 121
DailyExhausted == daily_retry_count >= max_daily_retries

\* lines 57, 66: open(local_file, "wb") has created (or truncated) the file of the
\* requested hour under its final name; nothing in the code removes or renames it
LocalFileCreated == io # <<>>

\* the cursor is before start_date while the daily budget is not used up
Crossed(date, daily) == date < start_date_dt /\ daily < max_daily_retries

\* ---- initial state: lines 36-47 done ----
Init ==
    /\ start_date_dt \in Days
    /\ end_date_dt \in Days
    /\ current_date = end_date_dt
    /\ current_hour = LastHour
    /\ hourly_retry_count = 0
    /\ daily_retry_count = 0
    /\ pc = "outer"
    /\ s3_key = NoKey
    /\ io = <<>>
    /\ printed = "none"
    /\ outcome = "running"
    /\ nreq = 0
    /\ nfiles = 0
    /\ hit_days = {}
    /\ miss_days = {}
    /\ crossed = Crossed(end_date_dt, 0)
    /\ last_result = "none"
    /\ misses = <<>>

\* ---- actions ----

\* lines 49-51: the outer loop's test and the start of a day
OuterCheck ==
    /\ pc = "outer"
    /\ IF OuterCond
         THEN /\ hourly_retry_count' = 0
              /\ current_hour' = LastHour
              /\ pc' = "inner"
         ELSE /\ pc' = "final"
              /\ UNCHANGED <<hourly_retry_count, current_hour>>
    /\ UNCHANGED <<inputs, current_date, daily_retry_count, s3_key, io, printed,
                   outcome, history, crossed, answers>>

\* lines 53-64: the inner loop's test, then the key and the request
InnerCheck ==
    /\ pc = "inner"
    /\ IF InnerCond
         THEN /\ s3_key' = [date |-> current_date, hour |-> current_hour,
                            hourly |-> hourly_retry_count, daily |-> daily_retry_count,
                            after |-> printed,
                            prev_date |-> s3_key.date, prev_hour |-> s3_key.hour]
              /\ nreq' = nreq + 1
              /\ io' = <<>>
              /\ pc' = "get_object"
         ELSE /\ pc' = "after_inner"
              /\ UNCHANGED <<s3_key, nreq, io>>
    /\ UNCHANGED <<inputs, cursor, printed, outcome, nfiles, hit_days, miss_days, crossed, answers>>

\* lines 60-65: get_object returns a response with a body
GetObjectData ==
    /\ pc = "get_object"
    /\ pc' = "open"
    /\ last_result' = "data"
    /\ misses' = <<>>
    /\ hit_days' = hit_days \cup {s3_key.date}
    /\ UNCHANGED <<inputs, cursor, s3_key, io, printed, outcome, nreq, nfiles,
                   miss_days, crossed>>

\* lines 66-67: open(local_file, "wb") creates or truncates the file
OpenFile ==
    /\ pc = "open"
    /\ io' = Append(io, "open")
    /\ pc' = "chunks"
    /\ UNCHANGED <<inputs, cursor, s3_key, printed, outcome, history, crossed, answers>>

\* lines 68-69: one chunk of the body is decompressed and written
WriteChunk ==
    /\ pc = "chunks"
    /\ Len(SelectSeq(io, LAMBDA e : e = "write")) < MaxChunks
    /\ io' = Append(io, "write")
    /\ UNCHANGED <<inputs, cursor, pc, s3_key, printed, outcome, history, crossed, answers>>

\* line 71: the body is exhausted; the decompressor's trailing output is written
WriteTrailing ==
    /\ pc = "chunks"
    /\ io' = Append(io, "write_trailing")
    /\ pc' = "flush"
    /\ UNCHANGED <<inputs, cursor, s3_key, printed, outcome, history, crossed, answers>>

\* line 72
Flush ==
    /\ pc = "flush"
    /\ io' = Append(io, "flush")
    /\ pc' = "fsync"
    /\ UNCHANGED <<inputs, cursor, s3_key, printed, outcome, history, crossed, answers>>

\* the bug of leaving out os.fsync
Fsync_NoSync ==
    /\ pc = "fsync"
    /\ nfiles' = nfiles + 1
    /\ pc' = "success"
    /\ UNCHANGED <<inputs, cursor, s3_key, io, printed, outcome, nreq, hit_days,
                   miss_days, crossed, answers>>

\* line 73, and the with-block closing the file
Fsync ==
    /\ pc = "fsync"
    /\ io' = Append(io, "fsync")
    /\ nfiles' = nfiles + 1
    /\ pc' = "success"
    /\ UNCHANGED <<inputs, cursor, s3_key, printed, outcome, nreq, hit_days,
                   miss_days, crossed, answers>>

\* the bug of not resetting the hourly counter on success
Success_NoReset ==
    /\ pc = "success"
    /\ printed' = "downloaded"
    /\ current_hour' = current_hour - 1
    /\ pc' = "inner"
    /\ UNCHANGED <<inputs, current_date, hourly_retry_count, daily_retry_count, s3_key,
                   io, outcome, history, crossed, answers>>

\* lines 75-78
Success ==
    /\ pc = "success"
    /\ printed' = "downloaded"
    /\ hourly_retry_count' = 0
    /\ current_hour' = current_hour - 1
    /\ pc' = "inner"
    /\ UNCHANGED <<inputs, current_date, daily_retry_count, s3_key, io, outcome,
                   history, crossed, answers>>

\* lines 80-107: get_object raises ClientError with code NoSuchKey
NoSuchKey ==
    /\ pc = "get_object"
    /\ \E error_code \in ErrorCodes :
         /\ IsNoSuchKey(error_code)
         /\ last_result' = error_code
         /\ miss_days' = miss_days \cup {s3_key.date}
         /\ misses' = IF misses # <<>> /\ misses[1].date = s3_key.date
                         THEN Append(misses, [date |-> s3_key.date, hour |-> s3_key.hour])
                         ELSE <<[date |-> s3_key.date, hour |-> s3_key.hour]>>
         /\ IF HourlyExhausted(hourly_retry_count + 1)
              THEN \* lines 87-97
                   /\ current_date' = current_date - 1
                   /\ current_hour' = AbandonHour
                   /\ hourly_retry_count' = 0
                   /\ daily_retry_count' = daily_retry_count + 1
                   /\ printed' = "moving_previous_day"
              ELSE IF HourUnderflow(current_hour - MissSkip)
              THEN \* lines 99-107
                   /\ current_date' = current_date - 1
                   /\ current_hour' = AbandonHour
                   /\ hourly_retry_count' = hourly_retry_count + 1
                   /\ daily_retry_count' = daily_retry_count + 1
                   /\ printed' = "hour_underflow"
              ELSE \* lines 83-84, 99
                   /\ current_hour' = current_hour - MissSkip
                   /\ hourly_retry_count' = hourly_retry_count + 1
                   /\ printed' = "not_found"
                   /\ UNCHANGED <<current_date, daily_retry_count>>
    /\ crossed' = (crossed \/ Crossed(current_date', daily_retry_count'))
    /\ pc' = "inner"
    /\ UNCHANGED <<inputs, s3_key, io, outcome, nreq, nfiles, hit_days>>

\* lines 80-81, 109-111: get_object raises ClientError with another code
OtherClientError ==
    /\ pc = "get_object"
    /\ \E error_code \in ErrorCodes :
         /\ ~IsNoSuchKey(error_code)
         /\ last_result' = error_code
    /\ printed' = "error"
    /\ outcome' = "raised"
    /\ pc' = "raised"
    /\ UNCHANGED <<inputs, cursor, s3_key, io, history, crossed, misses>>

\* lines 113-115: any other exception of the try block: get_object itself,
\* open, iter_chunks, decompress, write, flush or fsync
UnexpectedError ==
    /\ pc \in {"get_object", "open", "chunks", "flush", "fsync"}
    /\ printed' = "unexpected_error"
    /\ last_result' = "Exception"
    /\ outcome' = "raised"
    /\ pc' = "raised"
    /\ UNCHANGED <<inputs, cursor, s3_key, io, history, crossed, misses>>

\* lines 117-119
AfterInner ==
    /\ pc = "after_inner"
    /\ IF FellOffDay
         THEN /\ current_date' = current_date - 1
              /\ current_hour' = LastHour
         ELSE UNCHANGED <<current_date, current_hour>>
    /\ crossed' = (crossed \/ Crossed(current_date', daily_retry_count))
    /\ pc' = "outer"
    /\ UNCHANGED <<inputs, hourly_retry_count, daily_retry_count, s3_key, io,
                   printed, outcome, history, answers>>

\* lines 121-126
Final ==
    /\ pc = "final"
    /\ IF DailyExhausted
         THEN printed' = "exhausted" /\ outcome' = "exhausted"
         ELSE printed' = "completed" /\ outcome' = "completed"
    /\ pc' = "done"
    /\ UNCHANGED <<inputs, cursor, s3_key, io, history, crossed, answers>>

Next ==
    \/ OuterCheck
    \/ InnerCheck
    \/ GetObjectData
    \/ OpenFile
    \/ WriteChunk
    \/ WriteTrailing
    \/ Flush
    \/ Fsync
    \/ Success
    \/ NoSuchKey
    \/ OtherClientError
    \/ UnexpectedError
    \/ AfterInner
    \/ Final

Spec == Init /\ [][Next]_vars

\* the same walk with start_date and end_date drawn from the wider range
WideInit ==
    /\ start_date_dt \in WideDays
    /\ end_date_dt \in WideDays
    /\ current_date = end_date_dt
    /\ current_hour = LastHour
    /\ hourly_retry_count = 0
    /\ daily_retry_count = 0
    /\ pc = "outer"
    /\ s3_key = NoKey
    /\ io = <<>>
    /\ printed = "none"
    /\ outcome = "running"
    /\ nreq = 0
    /\ nfiles = 0
    /\ hit_days = {}
    /\ miss_days = {}
    /\ crossed = Crossed(end_date_dt, 0)
    /\ last_result = "none"
    /\ misses = <<>>

WideSpec == WideInit /\ [][Next]_vars

\* every blocking call returns or raises, and the interpreter keeps running
FairSpec == Spec /\ WF_vars(Next)

\* ---- the walk's properties ----

\* every answer so far was data, streamed and written without an exception
AllData == miss_days = {} /\ last_result \in {"none", "data"}

\* the k-th key of a walk that meets no miss: end_date down, hour 23 down to 0
ExpectedKey(k) == [date |-> end_date_dt - ((k - 1) \div 24), hour |-> 23 - ((k - 1) % 24)]

\* a fetch is in progress: requested, not yet through fsync
Fetching == pc \in {"get_object", "open", "chunks", "flush", "fsync"}

\* C1: for start_date <= end_date, while every request returns data the k-th
\* request is for day end_date - (k-1) div 24, hour 23 - (k-1) mod 24, no day is
\* abandoned, and the walk ends "completed" after 24 requests and 24 files for
\* each day of start_date..end_date.
C1_AllDataWalk ==
    (start_date_dt <= end_date_dt /\ AllData) =>
        /\ daily_retry_count = 0
        /\ nreq <= 24 * (end_date_dt - start_date_dt + 1)
        /\ nreq > 0 => /\ s3_key.date = ExpectedKey(nreq).date
                       /\ s3_key.hour = ExpectedKey(nreq).hour
        /\ nfiles = IF Fetching THEN nreq - 1 ELSE nreq
        /\ outcome \in {"running", "completed"}
        /\ pc = "done" => /\ outcome = "completed"
                          /\ nreq = 24 * (end_date_dt - start_date_dt + 1)
                          /\ nfiles = nreq

C1_Witness ==
    /\ pc = "done" /\ AllData /\ outcome = "completed"
    /\ start_date_dt < end_date_dt
    /\ nfiles = 24 * (end_date_dt - start_date_dt + 1)
    /\ s3_key.date = start_date_dt /\ s3_key.hour = 0

\* C2: every request issued is for a day d with start_date <= d <= end_date.
C2_RequestsWithinRange ==
    nreq > 0 => (start_date_dt <= s3_key.date /\ s3_key.date <= end_date_dt)

\* the answers that are neither data nor a missing key
Fatal == (ErrorCodes \ {"NoSuchKey"}) \cup {"Exception"}

\* C3: after an answer that is an error other than NoSuchKey, or an unexpected
\* exception, the walker is in its raised state with outcome "raised" (neither
\* "completed" nor "exhausted"), and nothing changes from the raised state on: no
\* further request is issued.
C3_ErrorStopsWalk ==
    /\ [](last_result \in Fatal => (pc = "raised" /\ outcome = "raised"))
    /\ [][pc = "raised" => UNCHANGED vars]_vars
    /\ [][(last_result' \in Fatal /\ last_result' # last_result)
            => (nreq' = nreq /\ pc' = "raised")]_vars

C3_Witness ==
    /\ pc = "raised" /\ outcome = "raised"
    /\ last_result = "AccessDenied"
    /\ nfiles > 0 /\ miss_days # {}

\* C4: once daily_retry_count has reached 3 no request is issued any more, the
\* last request made is the one for the third abandoned day (the day above the
\* cursor), and the walk ends "exhausted".
C4_ThreeAbandonmentsExhaust ==
    /\ [](daily_retry_count >= 3 =>
            /\ daily_retry_count = 3
            /\ pc \in {"inner", "after_inner", "outer", "final", "done"}
            /\ s3_key.date = current_date + 1
            /\ outcome \in {"running", "exhausted"})
    /\ [][daily_retry_count >= 3 => (nreq' = nreq /\ s3_key' = s3_key)]_vars
    /\ (daily_retry_count >= 3) ~> (pc = "done" /\ outcome = "exhausted")

C4_Witness ==
    /\ pc = "done" /\ outcome = "exhausted" /\ daily_retry_count = 3
    /\ last_result = "NoSuchKey"
    /\ nfiles > 0

\* C5: the third of three consecutive NoSuchKey answers on one day comes at hours
\* H, H-2, H-4, and its handler moves the cursor one day back, adds exactly 1 to
\* daily_retry_count and sets current_hour to 0 and hourly_retry_count to 0; a
\* fourth consecutive miss on the same day never happens.
C5_ThirdMissAbandonsDay ==
    /\ [](Len(misses) <= 3)
    /\ [][(Len(misses') = 3 /\ misses' # misses) =>
            /\ misses'[2].hour = misses'[1].hour - 2
            /\ misses'[3].hour = misses'[1].hour - 4
            /\ current_date' = current_date - 1
            /\ current_date = misses'[3].date
            /\ daily_retry_count' = daily_retry_count + 1
            /\ current_hour' = 0
            /\ hourly_retry_count' = 0
            /\ pc' = "inner"]_vars

C5_Witness ==
    /\ Len(misses) = 3 /\ pc = "inner"
    /\ printed = "moving_previous_day"
    /\ misses[1].hour < 23
    /\ current_date = misses[3].date - 1
    /\ current_hour = 0 /\ hourly_retry_count = 0
    /\ daily_retry_count = s3_key.daily + 1

\* every answer for end_date so far was NoSuchKey, every answer for an earlier
\* day was data, and nothing raised
EndDayMissing ==
    /\ start_date_dt < end_date_dt
    /\ end_date_dt \notin hit_days
    /\ miss_days \subseteq {end_date_dt}
    /\ last_result \in {"none", "data", "NoSuchKey"}

\* C6: if start_date < end_date, every request for end_date answers NoSuchKey and
\* every request for an earlier day answers data, then at most 3 requests are made
\* for end_date, the cursor leaves end_date with daily_retry_count = 1 after
\* exactly 3 misses, the earlier days are then fetched, and the walk ends
\* "completed" with daily_retry_count = 1.
C6_MissingEndDay ==
    EndDayMissing =>
        /\ daily_retry_count <= 1
        /\ (current_date = end_date_dt) => (daily_retry_count = 0 /\ nreq <= 3 /\ nfiles = 0)
        /\ (current_date < end_date_dt) =>
              /\ daily_retry_count = 1
              /\ nreq - nfiles = IF Fetching THEN 4 ELSE 3
        /\ outcome \in {"running", "completed"}
        /\ pc = "done" => /\ outcome = "completed"
                          /\ daily_retry_count = 1
                          /\ nreq - nfiles = 3
                          /\ miss_days = {end_date_dt}
                          /\ hit_days = start_date_dt .. (end_date_dt - 1)

C6_Witness ==
    /\ EndDayMissing /\ pc = "done"
    /\ outcome = "completed" /\ daily_retry_count = 1
    /\ nreq - nfiles = 3 /\ nfiles > 0

\* C7: a NoSuchKey answer whose handler leaves the hourly budget unexhausted
\* (fewer than 3 misses counted) and whose -2 skip takes the hour below 0 moves
\* the cursor one day back, adds 1 to daily_retry_count and sets current_hour to
\* 0 before the inner loop's next test, exactly as the answer that exhausts the
\* hourly budget does.
C7_UnderflowAbandonsDay ==
    [][(pc = "get_object" /\ last_result' = "NoSuchKey" /\ pc' # "raised"
          /\ (hourly_retry_count + 1 >= 3 \/ current_hour - 2 < 0)) =>
            /\ current_date' = current_date - 1
            /\ daily_retry_count' = daily_retry_count + 1
            /\ current_hour' = 0
            /\ pc' = "inner"]_vars

C7_Witness ==
    /\ printed = "hour_underflow" /\ pc = "inner"
    /\ last_result = "NoSuchKey"
    /\ s3_key.hour = 1 /\ s3_key.hourly = 0
    /\ current_date = s3_key.date - 1
    /\ daily_retry_count = s3_key.daily + 1
    /\ current_hour = 0

\* C8: the step that completes a successful fetch (lines 75-78) leaves
\* hourly_retry_count at 0, whatever it was, current_hour one less, and the day
\* and the daily counter as they were.
C8_SuccessResetsHourly ==
    [][(pc = "success" /\ pc' # "success") =>
            /\ hourly_retry_count' = 0
            /\ current_hour' = current_hour - 1
            /\ current_date' = current_date
            /\ daily_retry_count' = daily_retry_count]_vars

C8_Witness ==
    /\ printed = "downloaded" /\ pc = "inner"
    /\ s3_key.hourly = 2
    /\ hourly_retry_count = 0
    /\ current_hour = s3_key.hour - 1
    /\ current_date = s3_key.date

\* C9: a walk that ends without raising reports "exhausted" exactly when
\* daily_retry_count >= 3 and "completed" otherwise; when it reports "completed"
\* the cursor day is before start_date and daily_retry_count < 3.
C9_OutcomeByBudget ==
    /\ (pc = "done") = (outcome \in {"completed", "exhausted"})
    /\ pc = "done" =>
        /\ (outcome = "exhausted") = (daily_retry_count >= 3)
        /\ (outcome = "completed") = (daily_retry_count < 3)
        /\ outcome = "completed" => (current_date < start_date_dt /\ daily_retry_count < 3)

C9_Witness ==
    /\ pc = "done" /\ outcome = "completed"
    /\ daily_retry_count = 2
    /\ current_date < start_date_dt
    /\ nfiles > 0

\* C10: if at some point of the walk the cursor day was before start_date while
\* daily_retry_count < 3, the walk does not end "exhausted".
C10_CrossedNeverExhausted == crossed => outcome # "exhausted"


\* C11: a NoSuchKey answer never raises: its handler returns to the inner loop
\* with the walk still running, and a walk that has raised has met an answer that
\* is neither data nor NoSuchKey; a walk that ends otherwise ends "completed" or
\* "exhausted".
C11_NotFoundNeverRaised ==
    /\ [](pc = "raised" => last_result \in Fatal)
    /\ [](last_result \in {"none", "data", "NoSuchKey"} =>
            (outcome # "raised" /\ (pc = "done" => outcome \in {"completed", "exhausted"})))
    /\ [][(pc = "get_object" /\ last_result' = "NoSuchKey") =>
            (pc' = "inner" /\ outcome' = "running")]_vars

C11_Witness ==
    /\ pc = "done" /\ outcome = "exhausted"
    /\ last_result = "NoSuchKey"
    /\ nfiles = 0 /\ nreq > 3

\* the order of calls on the local file that a finished fetch has made
WellOrdered(calls) ==
    /\ Len(calls) >= 4
    /\ calls[1] = "open"
    /\ \A i \in 2..(Len(calls) - 3) : calls[i] = "write"
    /\ calls[Len(calls) - 2] = "write_trailing"
    /\ calls[Len(calls) - 1] = "flush"
    /\ calls[Len(calls)] = "fsync"

\* the calls that may follow a call on the local file
FollowingCalls(call) ==
    CASE call = "open" -> {"write", "write_trailing"}
      [] call = "write" -> {"write", "write_trailing"}
      [] call = "write_trailing" -> {"flush"}
      [] call = "flush" -> {"fsync"}
      [] OTHER -> {}

\* C12: the calls of a fetch on its file come in the order open, the chunk
\* writes, the trailing write, flush, fsync; the hour is counted as fetched
\* (cursor changed) only at the step after the fsync, and the next request is
\* issued only when no fetch is in progress.
C12_WriteFlushSyncOrder ==
    /\ [](/\ (io # <<>> => io[1] = "open")
          /\ \A i \in 1..(Len(io) - 1) : io[i + 1] \in FollowingCalls(io[i]))
    /\ [](pc = "success" => WellOrdered(io))
    /\ [][(pc \in {"open", "chunks", "flush", "fsync", "success"} /\ cursor' # cursor) =>
            (pc = "success" /\ WellOrdered(io) /\ printed' = "downloaded")]_vars
    /\ [][nreq' # nreq => (pc = "inner" /\ nreq' = nreq + 1)]_vars

C12_Witness ==
    /\ pc = "inner" /\ printed = "downloaded"
    /\ io = <<"open", "write", "write_trailing", "flush", "fsync">>
    /\ current_hour = s3_key.hour - 1

\* the last attempt failed: a missing key, another error, or an exception
AttemptFailed == last_result \in Fatal \cup {"NoSuchKey"}

\* C13: after a failed attempt no file exists under the name of that hour's
\* complete file (the code has no way of marking a file incomplete), and the
\* number of files written before is unchanged.
C13_FailedAttemptLeavesNoFile ==
    (AttemptFailed /\ ~Fetching) => ~LocalFileCreated

\* the request is the first one of a day the cursor has just moved to
FirstOfNewDay ==
    /\ nreq > 1
    /\ s3_key.date # s3_key.prev_date

\* C14: the first request of a day the walker has just moved to is made with
\* hourly_retry_count = 0.
C14_HourlyResetAcrossDays ==
    FirstOfNewDay => s3_key.hourly = 0

\* C15: 0 <= daily_retry_count <= 3 always, and no step decreases it.
C15_DailyBounded ==
    /\ [](daily_retry_count \in 0..3)
    /\ [][daily_retry_count' >= daily_retry_count]_vars

C15_Witness ==
    /\ daily_retry_count = 3
    /\ pc = "done"
    /\ hit_days # {}

\* C16: every request is for an hour in 0..23 and is made with
\* hourly_retry_count in 0..2.
C16_RequestInRange ==
    nreq > 0 => (s3_key.hour \in 0..23 /\ s3_key.hourly \in 0..2)

C16_Witness ==
    /\ pc = "get_object"
    /\ s3_key.hour = 0
    /\ s3_key.hourly = 2

\* C17: a NoSuchKey answer at (day, H) with H >= 2 that leaves fewer than 3 misses
\* counted sets current_hour to H - 2 and leaves the day and daily_retry_count;
\* the step after it requests (day, H - 2).
C17_MissSkipsTwoHours ==
    /\ [][(pc = "get_object" /\ last_result' = "NoSuchKey" /\ pc' # "raised"
             /\ hourly_retry_count + 1 < 3 /\ current_hour >= 2) =>
            /\ current_hour' = current_hour - 2
            /\ current_date' = current_date
            /\ daily_retry_count' = daily_retry_count
            /\ printed' = "not_found"
            /\ pc' = "inner"]_vars
    /\ [][(pc = "inner" /\ printed = "not_found") =>
            /\ pc' = "get_object"
            /\ s3_key'.date = s3_key.date
            /\ s3_key'.hour = s3_key.hour - 2
            /\ current_date' = s3_key.date
            /\ daily_retry_count' = s3_key.daily]_vars

C17_Witness ==
    /\ pc = "get_object" /\ last_result = "NoSuchKey"
    /\ s3_key.after = "not_found"
    /\ s3_key.date = s3_key.prev_date
    /\ s3_key.hour = s3_key.prev_hour - 2
    /\ s3_key.hourly = 2

\* the messages of the two day abandonments
AbandonPrints == {"moving_previous_day", "hour_underflow"}

\* C18: after an abandonment of day d with daily budget left, the next step
\* requests (d - 1, 0); every request made right after an abandonment is for hour
\* 0 of the day below the key before it; and when that request succeeds, the next
\* request, if the walk makes one, is for (d - 2, 23).
C18_AbandonEntersAtHourZero ==
    /\ [](s3_key.after \in AbandonPrints =>
            (s3_key.hour = 0 /\ s3_key.date = s3_key.prev_date - 1))
    /\ [][(pc = "inner" /\ printed \in AbandonPrints /\ daily_retry_count < 3) =>
            /\ pc' = "get_object"
            /\ s3_key'.date = s3_key.date - 1
            /\ s3_key'.hour = 0]_vars
    /\ [][(nreq' = nreq + 1 /\ s3_key.after \in AbandonPrints /\ printed = "downloaded") =>
            /\ s3_key'.date = s3_key.date - 1
            /\ s3_key'.hour = 23]_vars

C18_Witness ==
    /\ pc = "get_object"
    /\ s3_key.hour = 23 /\ s3_key.prev_hour = 0
    /\ s3_key.date = s3_key.prev_date - 1
    /\ s3_key.date = end_date_dt - 2
    /\ s3_key.after = "downloaded"
    /\ nfiles = 1 /\ nreq = 5 /\ daily_retry_count = 1

\* the most requests a walk can make: 24 for each day from end_date down to the
\* second day before start_date
MostRequests ==
    IF start_date_dt <= end_date_dt THEN 24 * (end_date_dt - start_date_dt + 3) ELSE 0

\* C19: every walk reaches "completed", "exhausted" or the raised state, after at
\* most 24 requests for each of the days it can visit.
C19_WalkTerminates ==
    /\ [](nreq <= MostRequests)
    /\ <>(pc \in {"done", "raised"})

C19_Witness ==
    /\ pc = "done"
    /\ nreq > 24
    /\ miss_days # {} /\ hit_days # {}

\* C20: every request after the first is for a key before the key of the request
\* before it, in the order of (day, hour).
C20_KeysStrictlyDecrease ==
    nreq > 1 =>
        \/ s3_key.date < s3_key.prev_date
        \/ (s3_key.date = s3_key.prev_date /\ s3_key.hour < s3_key.prev_hour)

C20_Witness ==
    /\ pc = "get_object" /\ nreq > 1
    /\ s3_key.date = s3_key.prev_date - 1
    /\ s3_key.hour = 0 /\ s3_key.prev_hour = 0


====
